---------------------------- MODULE Spec2Model ----------------------------
(***************************************************************************)
(* Bloom filter of src/main.js: the constructor, _hash, add and contains,  *)
(* and the larger-scale run of Test Case 4.                                *)
(*                                                                         *)
(* Strings are sequences of UTF-16 code units (what charCodeAt returns).   *)
(* JavaScript numbers are doubles; every value _hash handles is an integer *)
(* of magnitude below 2^53, so the arithmetic is exact.  A value that may  *)
(* leave the 32-bit range is kept as two limbs [hi, lo] standing for       *)
(* hi * 2^16 + lo with 0 <= lo < 2^16, so that no intermediate result      *)
(* needs more than 32 bits.                                                *)
(***************************************************************************)
EXTENDS Integers, Sequences, FiniteSets, TLC

VARIABLES
    size,        \* this.size
    numHashes,   \* this.numHashes
    bitArray,    \* this.bitArray: its indexed slots and its other keys
    ctor,        \* outcome of the constructor call: "ok" or "RangeError"
    added,       \* history: the items passed to add so far
    call,        \* history: the last call, its argument, result and derived indices
    pre,         \* history: size, numHashes and bitArray as they were before the last call
    probe,       \* the last direct _hash call: item, seed and value
    run          \* position of the Test Case 4 driver: phase, loop index, falsePositives

vars == <<size, numHashes, bitArray, ctor, added, call, pre, probe, run>>

---------------------------------------------------------------------------
(* Bounds of the model *)

MaxSize == 9      \* sizes 1..MaxSize are explored (and the size of Test Case 1)
MaxHashes == 3    \* numHashes 1..MaxHashes
MaxLen == 5       \* longest string drawn from Alphabet for a direct _hash call

---------------------------------------------------------------------------
(* 32-bit integer arithmetic of JavaScript *)

Word == 65536          \* 2^16, the limb base
Half == 32768          \* 2^15, the sign bit of the high limb

\* Stands for the value NaN of Math.abs(x % 0): it is no array index and no value
\* Math.abs returns for a number.
NaN == -1

\* the limbs of hi * 2^16 + lo for any integers hi, lo: the carry moves to hi
Norm(hi, lo) == [hi |-> hi + (lo \div Word), lo |-> lo % Word]

\* the limbs of an integer
Limbs(x) == [hi |-> x \div Word, lo |-> x % Word]

\* ToInt32: reduce modulo 2^32 into -2^31 .. 2^31 - 1
ToInt32(w) ==
    LET h == w.hi % Word
    IN  (IF h >= Half THEN h - Word ELSE h) * Word + w.lo

\* x << n on an int32 x, 0 <= n <= 14
ShiftLeft(x, n) ==
    LET l == Limbs(x)
    IN  ToInt32(Norm(l.hi * (2 ^ n), l.lo * (2 ^ n)))

\* bitwise exclusive or of two unsigned values of n bits, lowest bit first; once
\* one operand has no bits left the remaining bits are those of the other
RECURSIVE Xor16(_, _, _)
Xor16(a, b, n) ==
    IF n = 0 THEN 0
    ELSE IF b = 0 THEN a
    ELSE IF a = 0 THEN b
    ELSE ((a + b) % 2) + 2 * Xor16(a \div 2, b \div 2, n - 1)

\* x ^ y on int32 operands
BitXor(x, y) ==
    LET a == Limbs(x)
        b == Limbs(y)
    IN  ToInt32([hi |-> Xor16(a.hi % Word, b.hi % Word, 16),
                 lo |-> Xor16(a.lo, b.lo, 16)])

\* x % m of JavaScript for m # 0: the remainder takes the sign of the dividend
Rem(x, m) ==
    LET d == IF m < 0 THEN 0 - m ELSE m
        r == x % d
    IN  IF x >= 0 \/ r = 0 THEN r ELSE r - d

\* Math.abs of an integer
MathAbs(r) == IF r < 0 THEN 0 - r ELSE r

---------------------------------------------------------------------------
(* _hash *)

ShiftBy == 5    \* hash << 5

\* the loop body with hash << 4 in place of hash << 5
HashStepShift4(hash, char) ==
    LET a == Limbs(ShiftLeft(hash, 4))
        b == Limbs(hash)
    IN  ToInt32(Norm(a.hi - b.hi, a.lo - b.lo + char))

\* one pass of the loop body: hash = (hash << 5) - hash + char; hash = hash & hash.
\* The subtraction and addition are exact; hash & hash then wraps to 32 bits.
HashStep(hash, char) ==
    LET a == Limbs(ShiftLeft(hash, ShiftBy))
        b == Limbs(hash)
    IN  ToInt32(Norm(a.hi - b.hi, a.lo - b.lo + char))

\* the for loop of _hash, from the loop state st = [i, hash] on; charCodeAt(i) is
\* item[i + 1]
RECURSIVE HashLoop(_, _)
HashLoop(item, st) ==
    IF st.i >= Len(item) THEN st.hash
    ELSE HashLoop(item, [i |-> st.i + 1, hash |-> HashStep(st.hash, item[st.i + 1])])

\* hash % this.size without the Math.abs
ReduceNoAbs(hash, m) == IF m = 0 THEN NaN ELSE Rem(hash, m)

\* Math.abs(hash % this.size); hash % 0 is NaN and Math.abs(NaN) is NaN
Reduce(hash, m) == IF m = 0 THEN NaN ELSE MathAbs(Rem(hash, m))

\* _hash(item, seed) of a filter of size m
Hash(item, seed, m) ==
    Reduce(BitXor(HashLoop(item, [i |-> 0, hash |-> 0]), seed), m)

---------------------------------------------------------------------------
(* The filter *)

\* A JavaScript array is kept as [slots, props]: slots is the sequence of its indexed
\* elements, element j at position j + 1, and props the keys that are no index of
\* the array (NaN, a negative number) and were assigned 1.

\* the indices of an array
Keys(arr) == 0 .. Len(arr.slots) - 1

\* new Array(size).fill(1): every slot starts set
NewArrayOnes(sz) == [slots |-> [j \in 1 .. sz |-> 1], props |-> {}]

\* new Array(size).fill(0): slots 0 .. size-1, each holding 0
NewArray(sz) == [slots |-> [j \in 1 .. sz |-> 0], props |-> {}]

\* bitArray[index] ^= 1: the slot is flipped instead of set
StoreFlip(arr, index) ==
    IF index \in Keys(arr)
    THEN [arr EXCEPT !.slots[index + 1] = 1 - arr.slots[index + 1]]
    ELSE [arr EXCEPT !.props = arr.props \cup {index}]

\* bitArray[index] = 1: an index of the array sets its slot; any other key becomes a
\* property of the array object and leaves the slots alone (Math.abs of a remainder
\* by size is below size, so no key at or beyond the length arises)
Store(arr, index) ==
    IF index \in Keys(arr) THEN [arr EXCEPT !.slots[index + 1] = 1]
    ELSE [arr EXCEPT !.props = arr.props \cup {index}]

\* bitArray[index] === 0: a key that was never assigned reads as undefined, which
\* is not 0, and a property holds 1
IsZero(arr, index) == index \in Keys(arr) /\ arr.slots[index + 1] = 0

\* the loop of add with the bound i < numHashes - 1: the last seed is skipped
RECURSIVE AddLoopShort(_, _, _, _)
AddLoopShort(item, k, m, st) ==
    IF st.i >= k - 1 THEN st
    ELSE LET index == Hash(item, st.i, m)
         IN  AddLoopShort(item, k, m, [i |-> st.i + 1,
                                       bits |-> Store(st.bits, index),
                                       idx |-> Append(st.idx, index)])

\* the for loop of add, from the loop state st = [i, bits, idx] on: the array it
\* leaves and the indices it derived
RECURSIVE AddLoop(_, _, _, _)
AddLoop(item, k, m, st) ==
    IF st.i >= k THEN st
    ELSE LET index == Hash(item, st.i, m)
         IN  AddLoop(item, k, m, [i |-> st.i + 1,
                                  bits |-> Store(st.bits, index),
                                  idx |-> Append(st.idx, index)])

\* the loop of contains with the bound i < numHashes - 1: the last seed is not probed
RECURSIVE ContainsLoopShort(_, _, _, _, _)
ContainsLoopShort(bits, item, k, m, st) ==
    IF st.i >= k - 1 THEN [ret |-> TRUE, idx |-> st.idx]
    ELSE LET index == Hash(item, st.i, m)
         IN  IF IsZero(bits, index)
             THEN [ret |-> FALSE, idx |-> Append(st.idx, index)]
             ELSE ContainsLoopShort(bits, item, k, m,
                                    [i |-> st.i + 1, idx |-> Append(st.idx, index)])

\* the for loop of contains, from the loop state st = [i, idx] on: the value
\* returned and the indices derived
RECURSIVE ContainsLoop(_, _, _, _, _)
ContainsLoop(bits, item, k, m, st) ==
    IF st.i >= k THEN [ret |-> TRUE, idx |-> st.idx]
    ELSE LET index == Hash(item, st.i, m)
         IN  IF IsZero(bits, index)
             THEN [ret |-> FALSE, idx |-> Append(st.idx, index)]
             ELSE ContainsLoop(bits, item, k, m,
                               [i |-> st.i + 1, idx |-> Append(st.idx, index)])

NoCall == [op |-> "none", item |-> <<>>, ret |-> FALSE, idx |-> <<>>]
NoProbe == [done |-> FALSE, item |-> <<>>, seed |-> 0, value |-> 0]
Idle == [phase |-> "idle", i |-> 0, falsePositives |-> 0]

\* new BloomFilter(sz, k); new Array(sz) throws RangeError for a negative length
Constructor(sz, k) ==
    /\ size = sz
    /\ numHashes = k
    /\ ctor = IF sz < 0 THEN "RangeError" ELSE "ok"
    /\ bitArray = IF sz < 0 THEN [slots |-> <<>>, props |-> {}] ELSE NewArray(sz)
    /\ added = {}
    /\ call = NoCall
    /\ pre = [size |-> sz, numHashes |-> k, bitArray |-> bitArray]

\* add(item) on a filter whose bit array is bits and to which the items of was
\* were added before, with the history it leaves
AddCall(bits, was, item) ==
    LET r == AddLoop(item, numHashes, size, [i |-> 0, bits |-> bits, idx |-> <<>>])
    IN  /\ ctor = "ok"
        /\ bitArray' = r.bits
        /\ added' = was \cup {item}
        /\ call' = [op |-> "add", item |-> item, ret |-> FALSE, idx |-> r.idx]
        /\ pre' = [size |-> size, numHashes |-> numHashes, bitArray |-> bits]
        /\ UNCHANGED <<size, numHashes, ctor>>

\* add(item)
DoAdd(item) == AddCall(bitArray, added, item)

\* contains with if (this.bitArray[index] = 0): the assignment clears the slot, its
\* value 0 is falsy, so no early return is taken and true is returned
RECURSIVE ClearLoop(_, _, _, _)
ClearLoop(item, k, m, st) ==
    IF st.i >= k THEN st
    ELSE LET index == Hash(item, st.i, m)
         IN  ClearLoop(item, k, m, [i |-> st.i + 1,
                                    bits |-> IF index \in Keys(st.bits)
                                             THEN [st.bits EXCEPT
                                                       !.slots[index + 1] = 0]
                                             ELSE st.bits,
                                    idx |-> Append(st.idx, index)])

DoContainsAssign(item) ==
    LET r == ClearLoop(item, numHashes, size, [i |-> 0, bits |-> bitArray, idx |-> <<>>])
    IN  /\ ctor = "ok"
        /\ bitArray' = r.bits
        /\ call' = [op |-> "contains", item |-> item, ret |-> TRUE, idx |-> r.idx]
        /\ pre' = [size |-> size, numHashes |-> numHashes, bitArray |-> bitArray]
        /\ UNCHANGED <<size, numHashes, ctor, added>>

\* contains(item), with the history it leaves
DoContains(item) ==
    LET r == ContainsLoop(bitArray, item, numHashes, size, [i |-> 0, idx |-> <<>>])
    IN  /\ ctor = "ok"
        /\ call' = [op |-> "contains", item |-> item, ret |-> r.ret, idx |-> r.idx]
        /\ pre' = [size |-> size, numHashes |-> numHashes, bitArray |-> bitArray]
        /\ UNCHANGED <<size, numHashes, bitArray, ctor, added>>

---------------------------------------------------------------------------
(* Inputs *)

TestSize == 100    \* new BloomFilter(100, 3) of Test Case 1

Sizes == (1 .. MaxSize) \cup {TestSize}

Empty == <<>>
apple == <<97, 112, 112, 108, 101>>
banana == <<98, 97, 110, 97, 110, 97>>
cherry == <<99, 104, 101, 114, 114, 121>>
grape == <<103, 114, 97, 112, 101>>
\* a string whose running hash is exactly -2^31
MinHash == <<2325, 9, 30, 12, 2>>

Items == {Empty, apple, banana, cherry, grape, MinHash}

Alphabet == {0, 97, 65535}
Strings == Items \cup UNION {[1 .. n -> Alphabet] : n \in 0 .. MaxLen}

---------------------------------------------------------------------------
(* A filter built with valid parameters, used through add and contains *)

Init ==
    /\ \E sz \in Sizes, k \in 1 .. MaxHashes : Constructor(sz, k)
    /\ probe = NoProbe
    /\ run = Idle

Add(item) == DoAdd(item) /\ UNCHANGED <<probe, run>>

Contains(item) == DoContains(item) /\ UNCHANGED <<probe, run>>

Next == \E item \in Items : Add(item) \/ Contains(item)

Spec == Init /\ [][Next]_vars

---------------------------------------------------------------------------
(* Construction with any integer size *)

InitAnySize ==
    /\ \E sz \in (-2 .. MaxSize), k \in 1 .. MaxHashes : Constructor(sz, k)
    /\ probe = NoProbe
    /\ run = Idle

SpecAnySize == InitAnySize /\ [][Next]_vars

---------------------------------------------------------------------------
(* Direct calls of _hash *)

HashCall(item, seed) ==
    /\ ctor = "ok"
    /\ ~probe.done
    /\ probe' = [done |-> TRUE, item |-> item, seed |-> seed,
                 value |-> Hash(item, seed, size)]
    /\ UNCHANGED <<size, numHashes, bitArray, ctor, added, call, pre, run>>

NextHash == \E item \in Strings, seed \in 0 .. MaxHashes - 1 :
                seed < numHashes /\ HashCall(item, seed)

SpecHash == Init /\ [][NextHash]_vars

---------------------------------------------------------------------------
(* Test Case 4: 1000 items added, 500 other items queried *)

numElements == 1000
filterSize == 10000
tc4NumHashes == 7
numNonItems == 500

\* decimal digits of a non-negative integer, as the template literal prints it
RECURSIVE Digits(_)
Digits(n) == IF n < 10 THEN <<48 + n>> ELSE Append(Digits(n \div 10), 48 + (n % 10))

\* `item_${i}`
ItemName(i) == <<105, 116, 101, 109, 95>> \o Digits(i)

InitRun ==
    /\ Constructor(filterSize, tc4NumHashes)
    /\ probe = NoProbe
    /\ run = [phase |-> "add", i |-> 0, falsePositives |-> 0]

\* the add loop from the loop state st = [i, bits] up to and including iteration
\* hi, run as its first half followed by its second half
RECURSIVE AddUpTo(_, _)
AddUpTo(st, hi) ==
    IF st.i > hi THEN st
    ELSE IF st.i = hi
         THEN [i |-> st.i + 1,
               bits |-> AddLoop(ItemName(st.i), numHashes, size,
                                [i |-> 0, bits |-> st.bits, idx |-> <<>>]).bits]
         ELSE AddUpTo(AddUpTo(st, (st.i + hi) \div 2), hi)

\* one iteration of the add loop
RunAdd ==
    /\ run.phase = "add"
    /\ DoAdd(ItemName(run.i))
    /\ run' = IF run.i + 1 < numElements
              THEN [run EXCEPT !.i = run.i + 1]
              ELSE [run EXCEPT !.phase = "check", !.i = numElements]
    /\ UNCHANGED probe

\* the add loop from its start to its end
RunAddAll ==
    /\ run.phase = "add"
    /\ run.i = 0
    /\ AddCall(AddUpTo([i |-> 0, bits |-> bitArray], numElements - 2).bits,
               added \cup {ItemName(i) : i \in 0 .. numElements - 2},
               ItemName(numElements - 1))
    /\ run' = [run EXCEPT !.phase = "check", !.i = numElements]
    /\ UNCHANGED probe

\* one call of the forEach callback
RunCheck ==
    /\ run.phase = "check"
    /\ DoContains(ItemName(run.i))
    /\ run' = [phase |-> IF run.i + 1 < numElements + numNonItems
                         THEN "check" ELSE "done",
               i |-> run.i + 1,
               falsePositives |->
                   IF call'.ret THEN run.falsePositives + 1 ELSE run.falsePositives]
    /\ UNCHANGED probe

\* the forEach from its first element to its last
RunCheckAll ==
    /\ run.phase = "check"
    /\ run.i = numElements
    /\ DoContains(ItemName(numElements + numNonItems - 1))
    /\ run' = [phase |-> "done",
               i |-> numElements + numNonItems,
               falsePositives |->
                   Cardinality({i \in numElements .. numElements + numNonItems - 1 :
                                   ContainsLoop(bitArray, ItemName(i), numHashes, size,
                                                [i |-> 0, idx |-> <<>>]).ret})]
    /\ UNCHANGED probe

NextRun == RunAdd \/ RunAddAll \/ RunCheck \/ RunCheckAll

SpecRun == InitRun /\ [][NextRun]_vars

---------------------------------------------------------------------------
(* The documented derivation of an index, written from its formula *)

\* (H * 31 + codepoint) wrapped to a 32-bit signed integer
DocStep(h, c) ==
    LET l == Limbs(h)
    IN  ToInt32(Norm(l.hi * 31, l.lo * 31 + c))

\* the running hash of the first n characters
RECURSIVE DocBase(_, _)
DocBase(item, n) == IF n = 0 THEN 0 ELSE DocStep(DocBase(item, n - 1), item[n])

\* abs(h rem m) for m >= 1, rem the truncated remainder: it is |h| modulo m
DocReduce(h, m) == IF h >= 0 THEN h % m ELSE (m - (h % m)) % m

DocHash(item, seed, m) == DocReduce(BitXor(DocBase(item, Len(item)), seed), m)

\* the indices _hash derives for an item, one per seed
Derived(item) == {Hash(item, s, size) : s \in 0 .. numHashes - 1}

\* the slots of an array that hold 1
Ones(arr) == {j \in Keys(arr) : arr.slots[j + 1] = 1}

---------------------------------------------------------------------------
(* Properties *)

\* C1: no false negatives: a contains call on an item that an earlier add call was
\* given returns true, whatever was added or queried in between.
NoFalseNegatives ==
    (call.op = "contains" /\ call.item \in added) => call.ret = TRUE

\* a contains of an added item after other items were added too
NoFalseNegativesWitness ==
    /\ call.op = "contains"
    /\ call.item \in added
    /\ Cardinality(added) >= 3
    /\ call.ret = TRUE
    /\ Ones(bitArray) # Keys(bitArray)

\* C2: index bound: every index _hash derives during add or contains lies in
\* 0 .. size-1, also when the 32-bit running hash is negative or -2^31, and the bit
\* array holds no key outside 0 .. size-1.
IndexBound ==
    /\ \A n \in 1 .. Len(call.idx) : call.idx[n] \in 0 .. size - 1
    /\ Keys(bitArray) = 0 .. size - 1
    /\ bitArray.props = {}

\* an add of the item whose running hash is -2^31, with seeds that keep it negative
IndexBoundWitness ==
    /\ call.op = "add"
    /\ call.item = MinHash
    /\ HashLoop(MinHash, [i |-> 0, hash |-> 0]) = (0 - 2147483647) - 1
    /\ Len(call.idx) = 3
    /\ BitXor(HashLoop(MinHash, [i |-> 0, hash |-> 0]), 2) < 0
    /\ size = 7
    /\ call.idx[2] # 0

\* C3: monotonicity: a slot holding 1 holds 1 in every later state, and the bit array
\* always has exactly size slots, each holding 0 or 1.
Monotonic ==
    /\ [](/\ Len(bitArray.slots) = size
          /\ \A j \in Keys(bitArray) : bitArray.slots[j + 1] \in {0, 1})
    /\ [][Ones(bitArray) \subseteq Ones(bitArray')]_vars

\* a contains call on a filter holding the bits of two or more added items
MonotonicWitness ==
    /\ call.op = "contains"
    /\ Cardinality(added) >= 2
    /\ Cardinality(Ones(bitArray)) >= 2
    /\ Ones(bitArray) # Keys(bitArray)

\* C4: empty filter: while add has never been called, contains returns false.
EmptyFilter ==
    (call.op = "contains" /\ added = {}) => call.ret = FALSE

\* a contains on the fresh filter, stopped at the first seed
EmptyFilterWitness ==
    /\ call.op = "contains"
    /\ added = {}
    /\ call.ret = FALSE
    /\ Len(call.idx) = 1
    /\ numHashes > 1

\* C5: construction with a non-positive size is rejected, so no add or contains call
\* runs on a filter of non-positive size.
ConstructionMisuseRejected ==
    size <= 0 => (ctor = "RangeError" /\ call.op = "none")

\* C6: contains leaves the bit array, size and numHashes as they were, whether it
\* returns true or stops at a zero bit.
ContainsIsPure ==
    call.op = "contains" =>
        /\ bitArray = pre.bitArray
        /\ size = pre.size
        /\ numHashes = pre.numHashes

\* a contains that met set bits before stopping at a zero bit
ContainsIsPureWitness ==
    /\ call.op = "contains"
    /\ call.ret = FALSE
    /\ Len(call.idx) >= 2
    /\ added # {}

\* C7: in the run of Test Case 4 (size 10000, 7 hashes, item_0 .. item_999 added), at
\* most 50 of the 500 items item_1000 .. item_1499 are reported present.
FalsePositiveRate ==
    run.phase = "done" => run.falsePositives <= 50

\* the run has finished: 1000 items added, 500 queried, some reported present
FalsePositiveRateWitness ==
    /\ run.phase = "done"
    /\ run.i = numElements + numNonItems
    /\ Cardinality(added) = numElements
    /\ run.falsePositives = 38

\* C8: contains returns true exactly when every derived slot holds 1, and false
\* exactly when some derived slot holds 0.
ContainsIsConjunction ==
    call.op = "contains" =>
        /\ call.ret = TRUE <=> Derived(call.item) \subseteq Ones(bitArray)
        /\ call.ret = FALSE <=>
               \E j \in Derived(call.item) : IsZero(bitArray, j)

\* a contains that found the first derived slot set and a later one clear
ContainsIsConjunctionWitness ==
    /\ call.op = "contains"
    /\ call.ret = FALSE
    /\ Len(call.idx) = 2
    /\ numHashes = 3
    /\ Hash(call.item, 2, size) \in Ones(bitArray)

\* C9: _hash returns abs((H XOR seed) rem size), H being the multiply-by-31 running
\* hash wrapped to 32 bits at every step.
HashMatchesFormula ==
    probe.done => probe.value = DocHash(probe.item, probe.seed, size)

\* a direct call whose running hash wrapped around to a negative value
HashMatchesFormulaWitness ==
    /\ probe.done
    /\ Len(probe.item) = MaxLen
    /\ DocBase(probe.item, Len(probe.item)) < 0
    /\ probe.seed > 0
    /\ probe.value > 1

\* C10: add sets every derived slot to 1, leaves every other slot as it was, and
\* leaves size and numHashes unchanged.
AddSetsExactly ==
    call.op = "add" =>
        /\ Derived(call.item) \subseteq Ones(bitArray)
        /\ Len(bitArray.slots) = Len(pre.bitArray.slots)
        /\ bitArray.props = pre.bitArray.props
        /\ \A j \in Keys(bitArray) \ Derived(call.item) :
               bitArray.slots[j + 1] = pre.bitArray.slots[j + 1]
        /\ size = pre.size
        /\ numHashes = pre.numHashes

\* an add that set a clear slot on a filter already holding other set slots
AddSetsExactlyWitness ==
    /\ call.op = "add"
    /\ Ones(pre.bitArray) \ Derived(call.item) # {}
    /\ Derived(call.item) \ Ones(pre.bitArray) # {}
    /\ Ones(bitArray) # Keys(bitArray)

=============================================================================
